---- MODULE Spec2Model ----
(***************************************************************************)
(* AutoStruct (src/app.py): the ASCII tree parser, the structure           *)
(* validator, the structure creator and the request-processing block,      *)
(* modelled as state machines.                                             *)
(*                                                                         *)
(* A string is a sequence of characters; a character is a one-token TLA+   *)
(* string.  The box-drawing glyphs of the source are written as tokens:    *)
(*   VBAR = U+2502, TEE = U+251C, ELL = U+2514, DASH = U+2500,             *)
(*   DR = U+250C, DL = U+2510, UL = U+2518, TDOWN = U+252C,                *)
(*   TUP = U+2534, CROSS = U+253C.                                         *)
(***************************************************************************)
EXTENDS Integers, Sequences, FiniteSets, TLC

VARIABLES
    pc,         \* position of the running operation
    text,       \* parse_ascii: the argument
    lines,      \* parse_ascii: text.strip().split('\n')
    li,         \* parse_ascii: number of lines already consumed by the loop
    heap,       \* parse_ascii: the dict objects; heap[1] is `result`
    stack,      \* parse_ascii: the stack of (dict, indent_level) frames
    trace,      \* parse_ascii: what each surviving line did (observation)
    scan,       \* parse_ascii: indent / content_start of the last scanned line
    result,     \* parse_ascii: the returned structure
    structure,  \* the decoded tree given to validate / create_structure
    fs,         \* the filesystem at and below base_path
    runs,       \* create_structure: one record per finished call
    issues,     \* validate_structure: the returned list
    req         \* the request-processing block's locals

vars == <<pc, text, lines, li, heap, stack, trace, scan, result,
          structure, fs, runs, issues, req>>

asciiVars == <<text, lines, li, heap, stack, trace, scan, result>>

-----------------------------------------------------------------------------
(* Characters *)

SP == " "
TAB == "\t"
NL == "\n"
CR == "\r"
SLASH == "/"
VBAR == "VBAR"
TEE == "TEE"
ELL == "ELL"
DASH == "DASH"
DR == "DR"
DL == "DL"
UL == "UL"
TDOWN == "TDOWN"
TUP == "TUP"
CROSS == "CROSS"

\* what str.strip() and the regex class \s remove
Whitespace == {SP, TAB, NL, CR}

\* the characters of line 41: ' \t' and the vertical bar
IndentChars == {SP, TAB, VBAR}

\* the characters of line 46
TreeChars == {TEE, ELL, DR, DL, UL, TDOWN, TUP, CROSS, DASH}

\* the character class of the regexes at lines 66-67
CleanChars == {TEE, ELL, VBAR, DASH, DR, DL, UL, TDOWN, TUP, CROSS}

-----------------------------------------------------------------------------
(* String helpers *)

RECURSIVE LStrip(_, _)
LStrip(s, set) ==
    IF s # <<>> /\ Head(s) \in set THEN LStrip(Tail(s), set) ELSE s

RECURSIVE RStrip(_, _)
RStrip(s, set) ==
    IF s # <<>> /\ s[Len(s)] \in set
    THEN RStrip(SubSeq(s, 1, Len(s) - 1), set)
    ELSE s

strip(s) == RStrip(LStrip(s, Whitespace), Whitespace)

RECURSIVE split(_)
split(s) ==
    IF \A i \in 1..Len(s) : s[i] # NL
    THEN <<s>>
    ELSE LET i == CHOOSE k \in 1..Len(s) :
                      s[k] = NL /\ \A j \in 1..(k - 1) : s[j] # NL
         IN  <<SubSeq(s, 1, i - 1)>> \o split(SubSeq(s, i + 1, Len(s)))

\* re.sub(r'[glyphs]+\s*', '', s): every maximal run of glyphs, with the
\* whitespace that follows it, is removed
RECURSIVE RemoveGlyphRuns(_)
RemoveGlyphRuns(s) ==
    IF s = <<>> THEN <<>>
    ELSE IF Head(s) \in CleanChars
         THEN RemoveGlyphRuns(LStrip(LStrip(s, CleanChars), Whitespace))
         ELSE <<Head(s)>> \o RemoveGlyphRuns(Tail(s))

-----------------------------------------------------------------------------
(* parse_ascii: the indentation scan, lines 36-56.  Indexes are 0-based as *)
(* in the source: line[i] of the source is line[i + 1] here.               *)

\* GlyphRun skipping spaces only
RECURSIVE GlyphRunSpacesOnly(_, _)
GlyphRunSpacesOnly(line, content_start) ==
    IF content_start < Len(line) /\ line[content_start + 1] \in {SP}
    THEN GlyphRunSpacesOnly(line, content_start + 1)
    ELSE content_start

\* the while loop of lines 50-52; returns the final content_start
RECURSIVE GlyphRun(_, _)
GlyphRun(line, content_start) ==
    IF content_start < Len(line) /\ line[content_start + 1] \in {SP, DASH}
    THEN GlyphRun(line, content_start + 1)
    ELSE content_start

\* ScanFrom with a tab counted as one unit
RECURSIVE ScanFromTabOne(_, _, _)
ScanFromTabOne(line, i, indent) ==
    IF i >= Len(line)
    THEN [indent |-> indent, content_start |-> 0]
    ELSE LET char == line[i + 1] IN
         IF char \in IndentChars
         THEN ScanFromTabOne(line, i + 1, indent + 1)
         ELSE IF char \in TreeChars
         THEN LET cs == GlyphRun(line, i + 1) IN
              [indent |-> indent + (cs - (i + 1)), content_start |-> cs]
         ELSE [indent |-> indent, content_start |-> i]

RECURSIVE ScanFrom(_, _, _)
ScanFrom(line, i, indent) ==
    IF i >= Len(line)
    THEN [indent |-> indent, content_start |-> 0]
    ELSE LET char == line[i + 1] IN
         IF char \in IndentChars
         THEN ScanFrom(line, i + 1, indent + (IF char = TAB THEN 4 ELSE 1))
         ELSE IF char \in TreeChars
         THEN LET cs == GlyphRun(line, i + 1) IN
              [indent |-> indent + (cs - (i + 1)), content_start |-> cs]
         ELSE [indent |-> indent, content_start |-> i]

ScanLine(line) == ScanFrom(line, 0, 0)

\* lines 59-71
CleanLine(line, content_start) ==
    LET c0 == IF content_start < Len(line)
              THEN strip(SubSeq(line, content_start + 1, Len(line)))
              ELSE strip(line)
        c1 == LStrip(c0, CleanChars \cup Whitespace)
        c2 == strip(RemoveGlyphRuns(c1))
        c3 == LStrip(c2, Whitespace \cup {DASH})
    IN  RStrip(c3, Whitespace \cup {DASH})

-----------------------------------------------------------------------------
(* parse_ascii: dict objects.  A dict is a sequence of [key, val] pairs in *)
(* insertion order; val is 0 for None and the heap index of a dict         *)
(* otherwise.                                                              *)

HasKey(d, k) == \E i \in 1..Len(d) : d[i].key = k

\* DictSet that never replaces
DictSetAppend(d, k, v) == Append(d, [key |-> k, val |-> v])

\* d[k] = v: an existing key keeps its position and gets the new value
DictSet(d, k, v) ==
    IF HasKey(d, k)
    THEN [i \in 1..Len(d) |-> IF d[i].key = k THEN [key |-> k, val |-> v] ELSE d[i]]
    ELSE Append(d, [key |-> k, val |-> v])

\* PopStack keeping a frame of the same indent
RECURSIVE PopStackStrict(_, _)
PopStackStrict(stk, indent) ==
    IF Len(stk) > 1 /\ stk[Len(stk)][2] > indent
    THEN PopStackStrict(SubSeq(stk, 1, Len(stk) - 1), indent)
    ELSE stk

\* lines 77-78
RECURSIVE PopStack(_, _)
PopStack(stk, indent) ==
    IF Len(stk) > 1 /\ stk[Len(stk)][2] >= indent
    THEN PopStack(SubSeq(stk, 1, Len(stk) - 1), indent)
    ELSE stk

\* the body of the loop at line 30 for one line
ParseLine(st, n, line) ==
    IF strip(line) = <<>> THEN st
    ELSE
    LET sc == ScanLine(line)
        indent == sc.indent
        cleaned == CleanLine(line, sc.content_start)
        stk == PopStack(st.stack, indent)
        cur == stk[Len(stk)][1]
        folder_name == SubSeq(cleaned, 1, Len(cleaned) - 1)
        new == Len(st.heap) + 1
    IN  IF cleaned = <<>> THEN st
        ELSE IF cleaned[Len(cleaned)] = SLASH
        THEN IF folder_name # <<>>
             THEN [heap |-> [Append(st.heap, <<>>) EXCEPT
                                ![cur] = DictSet(@, folder_name, new)],
                   stack |-> Append(stk, <<new, indent>>),
                   trace |-> Append(st.trace,
                                [ln |-> n, indent |-> indent, kind |-> "dir",
                                 name |-> folder_name, parent |-> cur, id |-> new])]
             ELSE [heap |-> st.heap,
                   stack |-> stk,
                   trace |-> Append(st.trace,
                                [ln |-> n, indent |-> indent, kind |-> "none",
                                 name |-> <<>>, parent |-> 0, id |-> 0])]
        ELSE [heap |-> [st.heap EXCEPT ![cur] = DictSet(@, cleaned, 0)],
              stack |-> stk,
              trace |-> Append(st.trace,
                           [ln |-> n, indent |-> indent, kind |-> "file",
                            name |-> cleaned, parent |-> cur, id |-> 0])]

\* lines 27-28
ParseInit == [heap |-> << <<>> >>, stack |-> << <<1, -1>> >>, trace |-> <<>>]

\* Values of the structure model shared by the parsers, the validator and
\* the creator: [t, items] with t one of
\*   "none"  None            "dict"  items = sequence of [key, val]
\*   "str"   items = the characters        "list"  items = sequence of values
\*   "num", "bool"  any other scalar
None == [t |-> "none", items |-> <<>>]
Dict(items) == [t |-> "dict", items |-> items]

\* the Python value a dict object of the heap denotes
RECURSIVE HeapValue(_, _)
HeapValue(h, id) ==
    Dict([i \in 1..Len(h[id]) |->
            [key |-> h[id][i].key,
             val |-> IF h[id][i].val = 0 THEN None
                     ELSE HeapValue(h, h[id][i].val)]])

RECURSIVE ParseLines(_, _, _)
ParseLines(st, ls, n) ==
    IF n > Len(ls) THEN st ELSE ParseLines(ParseLine(st, n, ls[n]), ls, n + 1)

\* parse_ascii as a function, lines 24-94
parse_ascii(t) == HeapValue(ParseLines(ParseInit, split(strip(t)), 1).heap, 1)

-----------------------------------------------------------------------------
(* validate_structure, lines 115-135.  A path is a string, built as the    *)
(* f-strings of lines 124 and 126 build it.                                *)

\* the character class of line 123
ReservedChars == {"<", ">", ":", "\"", "|", "?", "*"}

\* re.search(r'[<>:"|?*]', key)
HasReserved(key) == \E i \in 1..Len(key) : key[i] \in ReservedChars

RECURSIVE validate_recursive(_, _, _)
\* the loop of line 121 over obj.items(), from item i on, as a function of
\* the issues collected so far
RECURSIVE ValidateItems(_, _, _, _)
ValidateItems(items, i, current_path, iss) ==
    IF i > Len(items) THEN iss
    ELSE LET key == items[i].key
             value == items[i].val
             iss1 == IF HasReserved(key)
                     THEN Append(iss, current_path \o <<SLASH>> \o key)
                     ELSE iss
             new_path == IF current_path # <<>>
                         THEN current_path \o <<SLASH>> \o key
                         ELSE key
             iss2 == IF value.t = "dict"
                     THEN validate_recursive(value, new_path, iss1)
                     ELSE iss1
         IN  ValidateItems(items, i + 1, current_path, iss2)

validate_recursive(obj, current_path, iss) ==
    IF obj.t = "dict" THEN ValidateItems(obj.items, 1, current_path, iss) ELSE iss

validate_structure(s) == validate_recursive(s, <<>>, <<>>)

-----------------------------------------------------------------------------
(* The filesystem at and below base_path.  A path is the sequence of the    *)
(* names joined by os.path.join below base_path; <<>> is base_path itself,  *)
(* whose parent directory exists.  fs maps each existing path to "dir",     *)
(* "empty_file" or "nonempty_file".                                         *)

Parent(p) == SubSeq(p, 1, Len(p) - 1)

Put(f, p, v) == [q \in DOMAIN f \cup {p} |-> IF q = p THEN v ELSE f[q]]

\* os.makedirs without exist_ok: an existing directory is an error
RECURSIVE MakeDirsNoExistOk(_, _)
MakeDirsNoExistOk(f, p) ==
    IF p \in DOMAIN f THEN [ok |-> FALSE, fs |-> f]
    ELSE IF p = <<>> THEN [ok |-> TRUE, fs |-> Put(f, p, "dir")]
    ELSE LET r == IF Parent(p) \in DOMAIN f
                  THEN [ok |-> f[Parent(p)] = "dir", fs |-> f]
                  ELSE MakeDirsNoExistOk(f, Parent(p))
         IN  IF r.ok THEN [ok |-> TRUE, fs |-> Put(r.fs, p, "dir")]
             ELSE [ok |-> FALSE, fs |-> f]

\* os.makedirs(p, exist_ok=True), lines 156, 166, 175
RECURSIVE MakeDirs(_, _)
MakeDirs(f, p) ==
    IF p \in DOMAIN f THEN [ok |-> f[p] = "dir", fs |-> f]
    ELSE IF p = <<>> THEN [ok |-> TRUE, fs |-> Put(f, p, "dir")]
    ELSE LET r == MakeDirs(f, Parent(p))
         IN  IF r.ok THEN [ok |-> TRUE, fs |-> Put(r.fs, p, "dir")]
             ELSE [ok |-> FALSE, fs |-> f]

\* open(p, 'w') followed by close, lines 159-160 and 184-185
OpenW(f, p) ==
    IF \/ (p \in DOMAIN f /\ f[p] = "dir")
       \/ Parent(p) \notin DOMAIN f
       \/ f[Parent(p)] # "dir"
    THEN [ok |-> FALSE, fs |-> f]
    ELSE [ok |-> TRUE, fs |-> Put(f, p, "empty_file")]

-----------------------------------------------------------------------------
(* create_structure, lines 138-197.  A log entry is [tag, dry, path] with  *)
(* tag "file", "folder" or "error".                                        *)

\* a success entry that leaves the dry-run marker out
CreatedLogUnmarked(tag, dry_run, full_path) ==
    [tag |-> tag, dry |-> FALSE, path |-> full_path]

\* the f-strings of lines 161, 167, 176, 186
CreatedLog(tag, dry_run, full_path) ==
    [tag |-> tag, dry |-> dry_run, path |-> full_path]

\* line 192
ErrorLog(full_path) == [tag |-> "error", dry |-> FALSE, path |-> full_path]

\* a test for None only
IsFileValueNoneOnly(value) == value.t = "none"

\* line 150: value is None or value == ""
IsFileValue(value) ==
    value.t = "none" \/ (value.t = "str" /\ value.items = <<>>)

RECURSIVE CreateItems(_, _, _, _, _)
RECURSIVE CreateListItems(_, _, _, _, _)

\* the body of the loop of line 146 for one (key, value), with its
\* try/except; st is [fs, logs]
CreateEntry(key, value, current_path, dry_run, st) ==
    LET full_path == Append(current_path, key)
        failed(f) == [fs |-> f, logs |-> Append(st.logs, ErrorLog(full_path))]
    IN  IF IsFileValue(value)
        THEN IF dry_run
             THEN [st EXCEPT !.logs = Append(@, CreatedLog("file", dry_run, full_path))]
             ELSE LET m == IF current_path \notin DOMAIN st.fs
                           THEN MakeDirs(st.fs, current_path)
                           ELSE [ok |-> TRUE, fs |-> st.fs]
                      o == OpenW(m.fs, full_path)
                  IN  IF ~m.ok THEN failed(m.fs)
                      ELSE IF ~o.ok THEN failed(o.fs)
                      ELSE [fs |-> o.fs,
                            logs |-> Append(st.logs, CreatedLog("file", dry_run, full_path))]
        ELSE IF value.t \in {"dict", "list"}
        THEN LET m == IF dry_run THEN [ok |-> TRUE, fs |-> st.fs]
                      ELSE MakeDirs(st.fs, full_path)
                 st1 == [fs |-> m.fs,
                         logs |-> Append(st.logs, CreatedLog("folder", dry_run, full_path))]
             IN  IF ~m.ok THEN failed(m.fs)
                 ELSE IF value.t = "dict"
                 THEN CreateItems(value.items, 1, full_path, dry_run, st1)
                 ELSE LET r == CreateListItems(value.items, 1, full_path, dry_run, st1)
                      IN  IF r.raised
                          THEN [fs |-> r.st.fs,
                                logs |-> Append(r.st.logs, ErrorLog(full_path))]
                          ELSE r.st
        ELSE st

\* create_recursive(obj, current_path) for a dict obj: the loop of line 146
\* from item i on
CreateItems(items, i, current_path, dry_run, st) ==
    IF i > Len(items) THEN st
    ELSE CreateItems(items, i + 1, current_path, dry_run,
                     CreateEntry(items[i].key, items[i].val, current_path, dry_run, st))

\* the loop of line 179 from item i on; an exception of open() leaves the
\* loop and reaches the except clause of line 191
CreateListItems(items, i, full_path, dry_run, st) ==
    IF i > Len(items) THEN [st |-> st, raised |-> FALSE]
    ELSE LET item == items[i] IN
         IF item.t = "str"
         THEN LET file_path == Append(full_path, item.items)
                  o == IF dry_run THEN [ok |-> TRUE, fs |-> st.fs]
                       ELSE OpenW(st.fs, file_path)
              IN  IF ~o.ok THEN [st |-> st, raised |-> TRUE]
                  ELSE CreateListItems(items, i + 1, full_path, dry_run,
                          [fs |-> o.fs,
                           logs |-> Append(st.logs,
                                      CreatedLog("file", dry_run, file_path))])
         ELSE IF item.t = "dict"
         THEN CreateListItems(items, i + 1, full_path, dry_run,
                              CreateItems(item.items, 1, full_path, dry_run, st))
         ELSE CreateListItems(items, i + 1, full_path, dry_run, st)

\* lines 140 and 194-197; base_path is the path <<>>
create_structure(s, dry_run, f) ==
    IF s.t = "dict"
    THEN CreateItems(s.items, 1, <<>>, dry_run, [fs |-> f, logs |-> <<>>])
    ELSE [fs |-> f, logs |-> <<>>]

-----------------------------------------------------------------------------
(* Inputs of parse_ascii *)

MaxLines == 3

RECURSIVE Join(_)
Join(ls) ==
    IF ls = <<>> THEN <<>>
    ELSE IF Len(ls) = 1 THEN ls[1]
    ELSE ls[1] \o <<NL>> \o Join(Tail(ls))

Prefixes == { <<>>, <<SP>>, <<TEE, DASH, SP>> }

Bodies == { <<"a">>, <<"a", SLASH>>, <<"b", SLASH>>, <<SLASH>>, <<>> }

AsciiLines == { p \o b : p \in Prefixes, b \in Bodies }

\* "a/\n  b\n  c/\n    d"
Example4 ==
    Join(<< <<"a", SLASH>>,
            <<SP, SP, "b">>,
            <<SP, SP, "c", SLASH>>,
            <<SP, SP, SP, SP, "d">> >>)

project == <<"p", "r", "o", "j", "e", "c", "t">>
app_py == <<"a", "p", "p", ".", "p", "y">>
data == <<"d", "a", "t", "a">>
raw_json == <<"r", "a", "w", ".", "j", "s", "o", "n">>
clean_json == <<"c", "l", "e", "a", "n", ".", "j", "s", "o", "n">>
models == <<"m", "o", "d", "e", "l", "s">>
model_pkl == <<"m", "o", "d", "e", "l", ".", "p", "k", "l">>

\* the seven-line example of the placeholder text and of the usage tab
Example7 ==
    Join(<< project \o <<SLASH>>,
            <<TEE, DASH, DASH, SP>> \o app_py,
            <<TEE, DASH, DASH, SP>> \o data \o <<SLASH>>,
            <<VBAR, SP, SP, SP, TEE, DASH, DASH, SP>> \o raw_json,
            <<VBAR, SP, SP, SP, ELL, DASH, DASH, SP>> \o clean_json,
            <<ELL, DASH, DASH, SP>> \o models \o <<SLASH>>,
            <<SP, SP, SP, SP, ELL, DASH, DASH, SP>> \o model_pkl >>)

MaxLineLen == 4

ScanAlphabet == {SP, TAB, VBAR, TEE, DASH, "a", SLASH}

\* single lines over ScanAlphabet, for the indentation scan
ScanLines == UNION { [1..n -> ScanAlphabet] : n \in 1..MaxLineLen }

\* a first line keeps text.strip() from removing the indentation of the second
AsciiTexts ==
    { Join(ls) : ls \in UNION { [1..n -> AsciiLines] : n \in 1..MaxLines } }
        \cup {Example4, Example7}
        \cup { <<"a", SLASH, NL>> \o l : l \in ScanLines }

NoScan == [line |-> <<>>, indent |-> 0, content_start |-> 0]

EmptyFs == << >>

NoReq == [format |-> "none", decoded |-> None, dry_run |-> FALSE,
          fs0 |-> EmptyFs, validated |-> FALSE, called |-> FALSE,
          error |-> "none"]

\* the variables the ASCII parser does not touch
otherInit ==
    /\ structure = None
    /\ fs = EmptyFs
    /\ runs = <<>>
    /\ issues = <<>>
    /\ req = NoReq

asciiIdle ==
    /\ lines = <<>>
    /\ li = 0
    /\ heap = <<>>
    /\ stack = <<>>
    /\ trace = <<>>
    /\ scan = NoScan
    /\ result = None

InitAscii ==
    /\ pc = "parse_start"
    /\ text \in AsciiTexts
    /\ asciiIdle
    /\ otherInit

\* lines 26-28
ParseStart ==
    /\ pc = "parse_start"
    /\ lines' = split(strip(text))
    /\ li' = 0
    /\ heap' = ParseInit.heap
    /\ stack' = ParseInit.stack
    /\ trace' = ParseInit.trace
    /\ pc' = "parse_loop"
    /\ UNCHANGED <<text, scan, result, structure, fs, runs, issues, req>>

\* one iteration of the loop at line 30
ParseStep ==
    /\ pc = "parse_loop"
    /\ li < Len(lines)
    /\ LET line == lines[li + 1]
           st == ParseLine([heap |-> heap, stack |-> stack, trace |-> trace],
                           li + 1, line)
       IN  /\ heap' = st.heap
           /\ stack' = st.stack
           /\ trace' = st.trace
           /\ scan' = IF strip(line) = <<>> THEN scan
                      ELSE [line |-> line,
                            indent |-> ScanLine(line).indent,
                            content_start |-> ScanLine(line).content_start]
    /\ li' = li + 1
    /\ UNCHANGED <<pc, text, lines, result, structure, fs, runs, issues, req>>

\* line 94
ParseReturn ==
    /\ pc = "parse_loop"
    /\ li = Len(lines)
    /\ result' = HeapValue(heap, 1)
    /\ pc' = "parsed"
    /\ UNCHANGED <<text, lines, li, heap, stack, trace, scan,
                   structure, fs, runs, issues, req>>

NextAscii == ParseStart \/ ParseStep \/ ParseReturn

SpecAscii == InitAscii /\ [][NextAscii]_vars

-----------------------------------------------------------------------------
(* Decoded JSON / YAML values *)

Str(cs) == [t |-> "str", items |-> cs]
List(items) == [t |-> "list", items |-> items]
\* a non-zero number and the boolean true
Num == [t |-> "num", items |-> <<>>]
Bool == [t |-> "bool", items |-> <<>>]

MaxItems == 2

\* the dicts with keys among `keys`, in every order, and values among `vals`
DictsOver(keys, vals) ==
    { Dict(d) : d \in
        { d \in UNION { [1..n -> [key : keys, val : vals]] :
                            n \in 0..Cardinality(keys) } :
            \A i, j \in 1..Len(d) : i # j => d[i].key # d[j].key } }

ListsOver(elems) ==
    { List(l) : l \in UNION { [1..n -> elems] : n \in 0..MaxItems } }

Scalars == {None, Str(<<>>), Str(<<"x">>), Num, Bool}

\* two levels of directories below the top level; a directory is a mapping
\* or a sequence of file names and nested mappings
StructuresOver(names, innerVals, nested) ==
    DictsOver(names,
        Scalars
          \cup DictsOver(names, innerVals)
          \cup ListsOver({ Str(n) : n \in names }
                            \cup { Dict(<<[key |-> nested, val |-> None]>>) }))

CreateNames == { <<"a">>, <<"b">> }

Structures == StructuresOver(CreateNames, {None, Dict(<<>>)}, <<"a">>)

FsOf(entries) ==
    [p \in { e[1] : e \in entries } |->
        (CHOOSE e \in entries : e[1] = p)[2]]

\* base_path missing; an empty directory; a file; and directories holding
\* entries that collide with the names of the structures
InitialFs ==
    { EmptyFs,
      FsOf({ <<<<>>, "dir">> }),
      FsOf({ <<<<>>, "nonempty_file">> }),
      FsOf({ <<<<>>, "dir">>, << <<<<"a">>>>, "nonempty_file">> }),
      FsOf({ <<<<>>, "dir">>, << <<<<"a">>>>, "dir">>,
             << <<<<"a">>, <<"a">>>>, "dir">> }),
      FsOf({ <<<<>>, "dir">>, << <<<<"a">>>>, "dir">>,
             << <<<<"a">>, <<"b">>>>, "nonempty_file">>,
             << <<<<"b">>>>, "dir">> }) }

-----------------------------------------------------------------------------
(* create_structure called repeatedly on one tree and one base path *)

MaxRuns == 2

InitCreate ==
    /\ pc = "create"
    /\ structure \in Structures
    /\ fs \in InitialFs
    /\ runs = <<>>
    /\ issues = <<>>
    /\ req = NoReq
    /\ text = <<>>
    /\ asciiIdle

\* one call create_structure(structure, base_path, dry_run)
CreateCall ==
    /\ pc = "create"
    /\ Len(runs) < MaxRuns
    /\ \E dry_run \in BOOLEAN :
          LET r == create_structure(structure, dry_run, fs) IN
          /\ fs' = r.fs
          /\ runs' = Append(runs, [dry_run |-> dry_run, before |-> fs,
                                   after |-> r.fs, logs |-> r.logs])
    /\ UNCHANGED <<pc, text, lines, li, heap, stack, trace, scan, result,
                   structure, issues, req>>

NextCreate == CreateCall

SpecCreate == InitCreate /\ [][NextCreate]_vars

-----------------------------------------------------------------------------
(* The request-processing block, lines 256-284 *)

\* what json.loads / yaml.safe_load raise on
DecodeError == [t |-> "decode_error", items |-> <<>>]

ReqNames == { <<"a">>, <<"b", ":">> }

ReqStructures ==
    StructuresOver(ReqNames,
                   {None, Dict(<<[key |-> <<"b", ":">>, val |-> None]>>)},
                   <<"b", ":">>)
        \cup {None, Num, Str(<<"x">>), List(<<Str(<<"a">>)>>)}

ReqTexts ==
    { Example4, Example7, <<"a">>, <<SLASH>>, <<"b", ":">>,
      Join(<< <<"a", SLASH>>, <<SP, "b", ":">> >>),
      Join(<< <<"a", SLASH>>, <<TEE, DASH, SP, "a", SLASH>>, <<VBAR, SP, SP, SP, "b">> >>) }

\* the truth value of `if parsed_structure:` (line 268)
Truthy(v) ==
    IF v.t = "none" THEN FALSE
    ELSE IF v.t \in {"dict", "list", "str"} THEN v.items # <<>>
    ELSE TRUE

\* a check of existence only
BasePathExists(f) == <<>> \in DOMAIN f

\* lines 278-282: os.path.exists(base_path) and os.path.isdir(base_path)
BasePathOk(f) == <<>> \in DOMAIN f /\ f[<<>>] = "dir"

Init ==
    /\ pc = "req_parse"
    /\ fs \in InitialFs
    /\ \E format \in {"ASCII", "JSON", "YAML"}, dry_run \in BOOLEAN :
          /\ \/ /\ format = "ASCII"
                /\ text \in ReqTexts
                /\ req = [NoReq EXCEPT !.format = format, !.dry_run = dry_run,
                                       !.fs0 = fs]
             \/ /\ format # "ASCII"
                /\ text = <<>>
                /\ \E d \in ReqStructures \cup {DecodeError} :
                      req = [NoReq EXCEPT !.format = format, !.dry_run = dry_run,
                                          !.fs0 = fs, !.decoded = d]
    /\ structure = None
    /\ runs = <<>>
    /\ issues = <<>>
    /\ asciiIdle

\* lines 259-268: parse with the selected parser, stop on nothing parsed
ReqParse ==
    /\ pc = "req_parse"
    /\ LET parsed_structure ==
              IF req.format = "ASCII" THEN parse_ascii(text)
              ELSE IF req.decoded = DecodeError THEN None
              ELSE req.decoded
       IN  /\ structure' = parsed_structure
           /\ pc' = IF Truthy(parsed_structure) THEN "req_validate" ELSE "req_done"
           /\ req' = [req EXCEPT !.error =
                         IF req.format # "ASCII" /\ req.decoded = DecodeError
                         THEN "format" ELSE @]
    /\ UNCHANGED <<text, lines, li, heap, stack, trace, scan, result,
                   fs, runs, issues>>

\* lines 270-275
ReqValidate ==
    /\ pc = "req_validate"
    /\ issues' = validate_structure(structure)
    /\ req' = [req EXCEPT !.validated = TRUE,
                          !.error = IF issues' # <<>> THEN "validation" ELSE @]
    /\ pc' = IF issues' # <<>> THEN "req_done" ELSE "req_base"
    /\ UNCHANGED <<text, lines, li, heap, stack, trace, scan, result,
                   structure, fs, runs>>

\* lines 278-282
ReqCheckBase ==
    /\ pc = "req_base"
    /\ req' = [req EXCEPT !.error =
                  IF <<>> \notin DOMAIN fs THEN "base_missing"
                  ELSE IF ~BasePathOk(fs) THEN "base_not_dir"
                  ELSE @]
    /\ pc' = IF BasePathOk(fs) THEN "req_create" ELSE "req_done"
    /\ UNCHANGED <<text, lines, li, heap, stack, trace, scan, result,
                   structure, fs, runs, issues>>

\* line 284
ReqCreate ==
    /\ pc = "req_create"
    /\ LET r == create_structure(structure, req.dry_run, fs) IN
       /\ fs' = r.fs
       /\ runs' = Append(runs, [dry_run |-> req.dry_run, before |-> fs,
                                after |-> r.fs, logs |-> r.logs])
    /\ req' = [req EXCEPT !.called = TRUE]
    /\ pc' = "req_done"
    /\ UNCHANGED <<text, lines, li, heap, stack, trace, scan, result,
                   structure, issues>>

Next == ReqParse \/ ReqValidate \/ ReqCheckBase \/ ReqCreate

Spec == Init /\ [][Next]_vars

-----------------------------------------------------------------------------
(* Properties of parse_ascii *)

Max(S) == CHOOSE x \in S : \A y \in S : y <= x

\* the lines that can be the parent of trace entry k: earlier lines that
\* created a directory, are strictly shallower than k, and are not followed,
\* before k, by a surviving line at their own level or shallower
ParentCandidates(k) ==
    { d \in 1..(k - 1) :
        /\ trace[d].kind = "dir"
        /\ trace[d].indent < trace[k].indent
        /\ \A m \in (d + 1)..(k - 1) : trace[m].indent > trace[d].indent }

ValueOfKey(d, k) == d[CHOOSE i \in 1..Len(d) : d[i].key = k].val

Example4Result ==
    Dict(<< [key |-> <<"a">>,
             val |-> Dict(<< [key |-> <<"b">>, val |-> None],
                             [key |-> <<"c">>,
                              val |-> Dict(<< [key |-> <<"d">>, val |-> None] >>)] >>)] >>)

\* C1: every entry is inserted into the directory created by the latest
\* earlier line that created a directory, is strictly shallower and has not
\* been closed by a surviving line (a lone '/' included) at its level or
\* shallower; without such a line it is inserted at the top level.  The
\* four-line example yields a -> {b, c -> {d}}.
C1_ParentIsLatestOpenShallowerDirectory ==
    /\ \A k \in 1..Len(trace) :
          trace[k].kind # "none" =>
             LET ds == ParentCandidates(k) IN
             /\ trace[k].parent = IF ds = {} THEN 1 ELSE trace[Max(ds)].id
             /\ (k = Len(trace)) =>
                   /\ HasKey(heap[trace[k].parent], trace[k].name)
                   /\ ValueOfKey(heap[trace[k].parent], trace[k].name) = trace[k].id
                   /\ ds # {} =>
                         LET d == trace[Max(ds)] IN
                         /\ HasKey(heap[d.parent], d.name)
                         /\ ValueOfKey(heap[d.parent], d.name) = d.id
    /\ (pc = "parsed" /\ text = Example4) => result = Example4Result

\* a file placed in a directory across a lone '/' line that lies deeper than
\* the directory
C1_Witness ==
    /\ pc = "parsed"
    /\ \E k \in 3..Len(trace) :
          /\ trace[k].kind = "file"
          /\ ParentCandidates(k) # {}
          /\ Max(ParentCandidates(k)) = k - 2
          /\ trace[k - 1].kind = "none"
          /\ trace[k].parent = trace[k - 2].id
          /\ trace[k].parent # 1

Example7Result ==
    Dict(<< [key |-> project,
             val |-> Dict(<< [key |-> app_py, val |-> None],
                             [key |-> data,
                              val |-> Dict(<< [key |-> raw_json, val |-> None],
                                              [key |-> clean_json, val |-> None] >>)],
                             [key |-> models,
                              val |-> Dict(<< [key |-> model_pkl, val |-> None] >>)] >>)] >>)

\* C2: the seven-line box-drawing example parses to the single top-level
\* directory project holding, in order, file app.py, directory data with
\* raw.json and clean.json, and directory models with model.pkl; no
\* connector glyph is left in a name.
C2_SevenLineExample ==
    (pc = "parsed" /\ text = Example7) =>
        /\ result = Example7Result
        /\ \A k \in 1..Len(trace) :
              \A j \in 1..Len(trace[k].name) : trace[k].name[j] \notin CleanChars

C2_Witness ==
    /\ pc = "parsed"
    /\ text = Example7
    /\ Len(trace) = 7
    /\ Len(result.items) = 1

\* the latest declaration of name n under dict p
LatestDecl(p, n) ==
    Max({ k \in 1..Len(trace) :
            trace[k].kind # "none" /\ trace[k].parent = p /\ trace[k].name = n })

DeclaredNames(p) ==
    { trace[k].name : k \in { j \in 1..Len(trace) :
                                 trace[j].kind # "none" /\ trace[j].parent = p } }

KeysOf(d) == { d[i].key : i \in 1..Len(d) }

\* C8: a name declared more than once under one parent is one child, of the
\* kind of the latest declaration: a file (the earlier directory and its
\* children are gone), or a directory holding only what was declared under
\* it after that latest declaration (so it starts empty).
C8_LastWriteWins ==
    \A p \in 1..Len(heap) :
       /\ KeysOf(heap[p]) = DeclaredNames(p)
       /\ \A n \in DeclaredNames(p) :
             LET k == LatestDecl(p, n) IN
             /\ Cardinality({ i \in 1..Len(heap[p]) : heap[p][i].key = n }) = 1
             /\ trace[k].kind = "file" => ValueOfKey(heap[p], n) = 0
             /\ trace[k].kind = "dir" =>
                   /\ ValueOfKey(heap[p], n) = trace[k].id
                   /\ \A j \in 1..Len(trace) :
                         (trace[j].kind # "none" /\ trace[j].parent = trace[k].id)
                             => j > k
                   /\ (k = Len(trace)) => heap[trace[k].id] = <<>>

\* a directory with a child, then the same name as a file under the same
\* parent; and the other order
C8_Witness ==
    /\ pc = "parsed"
    /\ \E i, j, k \in 1..Len(trace) :
          /\ i < j /\ j < k
          /\ trace[i].kind = "dir" /\ trace[k].kind = "file"
          /\ trace[i].parent = trace[k].parent /\ trace[i].name = trace[k].name
          /\ trace[j].parent = trace[i].id
          /\ result.items[1].val = None

FirstNotIn(line, set) ==
    IF \E k \in 1..Len(line) : line[k] \notin set
    THEN CHOOSE k \in 1..Len(line) :
            line[k] \notin set /\ \A j \in 1..(k - 1) : line[j] \in set
    ELSE Len(line) + 1

Count(line, upto, set) == Cardinality({ k \in 1..upto : line[k] \in set })

\* the length of the run of horizontal dashes and spaces right after line[p]
RunAfter(line, p) ==
    CHOOSE r \in 0..(Len(line) - p) :
        /\ \A j \in 1..r : line[p + j] \in {SP, DASH}
        /\ (p + r = Len(line) \/ line[p + r + 1] \notin {SP, DASH})

\* the scan as the claim words it: the characters of `ones` add 1, a tab
\* adds 4, the first character of `stops` ends the indentation and is
\* followed by a run of dashes and spaces adding 1 each
ClaimedScan(line, ones, stops) ==
    LET p == FirstNotIn(line, ones \cup {TAB})
        base == Count(line, p - 1, ones) + 4 * Count(line, p - 1, {TAB})
    IN  IF p > Len(line) THEN [indent |-> base, content_start |-> 0]
        ELSE IF line[p] \in stops
        THEN [indent |-> base + RunAfter(line, p),
              content_start |-> p + RunAfter(line, p)]
        ELSE [indent |-> base, content_start |-> p - 1]

\* C10 as stated: a vertical bar ends the indentation scan like a branch or
\* corner glyph.
C10_VerticalBarEndsScan ==
    scan # NoScan =>
        LET c == ClaimedScan(scan.line, {SP}, TreeChars \cup {VBAR}) IN
        scan.indent = c.indent /\ scan.content_start = c.content_start

\* C10 amended: a space and a vertical bar add 1 and a tab adds 4; the first
\* branch/corner glyph or horizontal dash ends the indentation scan, then
\* each immediately following dash or space adds 1 and the rest is content.
C10_VerticalBarIsIndentation ==
    scan # NoScan =>
        LET c == ClaimedScan(scan.line, {SP, VBAR}, TreeChars) IN
        scan.indent = c.indent /\ scan.content_start = c.content_start

C10_Witness ==
    /\ scan.line = <<VBAR, TAB, TEE, DASH>>
    /\ scan.indent = 6
    /\ scan.content_start = 4

-----------------------------------------------------------------------------
(* Properties of validate_structure, create_structure and the request      *)
(* block                                                                   *)

Range(q) == { q[i] : i \in 1..Len(q) }

\* the named entries a decoded value declares below `path`: the keys of a
\* mapping, the strings of a sequence, and the keys of the mappings nested
\* in a sequence
RECURSIVE NodesOf(_, _)
NodesOf(v, path) ==
    IF v.t = "dict"
    THEN UNION { {[path |-> Append(path, it.key), val |-> it.val]}
                    \cup NodesOf(it.val, Append(path, it.key)) :
                 it \in Range(v.items) }
    ELSE IF v.t = "list"
    THEN UNION { IF e.t = "str"
                 THEN {[path |-> Append(path, e.items), val |-> None]}
                 ELSE IF e.t = "dict" THEN NodesOf(e, path)
                 ELSE {} :
                 e \in Range(v.items) }
    ELSE {}

IsDirValue(v) == v.t \in {"dict", "list"}

NoError(logs) == \A i \in 1..Len(logs) : logs[i].tag # "error"

PathTags(logs) == [i \in 1..Len(logs) |-> [path |-> logs[i].path, tag |-> logs[i].tag]]

RealRuns == { i \in 1..Len(runs) : ~runs[i].dry_run }
DryRuns == { i \in 1..Len(runs) : runs[i].dry_run }

\* the children of the directory at `path` that the creator handles: files,
\* directories, the strings of a sequence and the keys of its mappings
ChildPaths(path) ==
    { n.path : n \in { m \in NodesOf(structure, <<>>) :
                          /\ Parent(m.path) = path
                          /\ (IsDirValue(m.val) \/ m.val = None
                                \/ m.val = Str(<<>>)) } }

\* the directories of the tree that run r created: the root and every
\* directory with a folder entry in the log
CreatedDirs(r) ==
    { <<>> } \cup
    { n.path : n \in { m \in NodesOf(structure, <<>>) :
                          /\ IsDirValue(m.val)
                          /\ \E i \in 1..Len(r.logs) :
                                r.logs[i].tag = "folder" /\ r.logs[i].path = m.path } }

Unlogged(r, path) ==
    { c \in ChildPaths(path) : \A i \in 1..Len(r.logs) : r.logs[i].path # c }

ErrorsAt(r, path) ==
    { i \in 1..Len(r.logs) : r.logs[i].tag = "error" /\ r.logs[i].path = path }

\* C3: in a run that writes, a failure costs a directory one Error entry and
\* nothing else: every child of a created directory has a log entry of its
\* own, but for at most one child per Error entry logged for the directory.
C3_FailureNeverStopsSiblings ==
    \A i \in RealRuns :
       \A d \in CreatedDirs(runs[i]) :
          Cardinality(Unlogged(runs[i], d)) <= Cardinality(ErrorsAt(runs[i], d))

\* C4 as stated: a dry run leaves the filesystem alone and logs, marked as
\* dry run, the paths and tags that a writing run from the same filesystem
\* logs.
C4_DryRunLogEqualsRealLog ==
    \A i \in DryRuns :
       /\ runs[i].after = runs[i].before
       /\ \A k \in 1..Len(runs[i].logs) : runs[i].logs[k].dry
       /\ \A j \in RealRuns :
             runs[j].before = runs[i].before
                => PathTags(runs[i].logs) = PathTags(runs[j].logs)

\* C4 amended: a dry run leaves the filesystem alone and marks every entry as
\* dry run; its paths and tags are those of a writing run from the same
\* filesystem whenever that run logs no Error entry.
C4_DryRunLogEqualsErrorFreeRealLog ==
    \A i \in DryRuns :
       /\ runs[i].after = runs[i].before
       /\ \A k \in 1..Len(runs[i].logs) : runs[i].logs[k].dry
       /\ \A j \in RealRuns :
             (runs[j].before = runs[i].before /\ NoError(runs[j].logs))
                => PathTags(runs[i].logs) = PathTags(runs[j].logs)

\* a dry run, then a writing run without errors that created a folder and a
\* file
C4_Witness ==
    /\ Len(runs) >= 2
    /\ runs[1].dry_run /\ ~runs[2].dry_run
    /\ runs[2].before = runs[1].before
    /\ NoError(runs[2].logs)
    /\ runs[2].after # runs[2].before
    /\ \E k \in 1..Len(runs[1].logs) : runs[1].logs[k].tag = "folder"
    /\ \E k \in 1..Len(runs[1].logs) : runs[1].logs[k].tag = "file"

\* the [path, tag] pairs the tree calls for, with fileValue(v) telling which
\* scalar values are files
ExpectedEntries(fileValue(_)) ==
    { [path |-> n.path, tag |-> IF IsDirValue(n.val) THEN "folder" ELSE "file"] :
        n \in { m \in NodesOf(structure, <<>>) :
                   IsDirValue(m.val) \/ fileValue(m.val) } }

AnyScalar(v) == ~IsDirValue(v)
NoneOrEmptyString(v) == v = None \/ v = Str(<<>>)

LoggedEntries(r) == Range(PathTags(r.logs))

\* C6 as stated: every child is materialized, a mapping or sequence as a
\* directory and null or any other scalar as a file.
C6_EveryScalarIsAFile ==
    \A i \in DryRuns : LoggedEntries(runs[i]) = ExpectedEntries(AnyScalar)

\* C6 amended: a mapping or a sequence is a directory (the strings of a
\* sequence are files, its mappings nested structures), null and the empty
\* string are files, and any other scalar is skipped: no log entry, nothing
\* on disk.
C6_OnlyNullAndEmptyStringAreFiles ==
    /\ \A i \in DryRuns : LoggedEntries(runs[i]) = ExpectedEntries(NoneOrEmptyString)
    /\ \A i \in RealRuns :
          NoError(runs[i].logs) =>
             /\ LoggedEntries(runs[i]) = ExpectedEntries(NoneOrEmptyString)
             /\ \A e \in ExpectedEntries(NoneOrEmptyString) :
                   /\ e.path \in DOMAIN runs[i].after
                   /\ runs[i].after[e.path] =
                         IF e.tag = "folder" THEN "dir" ELSE "empty_file"
             /\ \A q \in DOMAIN runs[i].after :
                   \/ q \in DOMAIN runs[i].before
                   \/ q = <<>>
                   \/ \E e \in ExpectedEntries(NoneOrEmptyString) : e.path = q

\* a writing run without errors over an empty string, which became a file,
\* and a number, which became nothing
C6_Witness ==
    /\ Len(runs) >= 1
    /\ ~runs[1].dry_run
    /\ NoError(runs[1].logs)
    /\ \E it \in Range(structure.items) :
          /\ it.val = Str(<<>>)
          /\ <<it.key>> \in DOMAIN runs[1].after
          /\ runs[1].after[<<it.key>>] = "empty_file"
    /\ \E it \in Range(structure.items) :
          it.val = Num /\ <<it.key>> \notin DOMAIN runs[1].after

FilePaths ==
    { e.path : e \in { x \in ExpectedEntries(NoneOrEmptyString) : x.tag = "file" } }

\* C9 as stated: the second of two writing runs in a row logs no Error and
\* leaves the filesystem as the first left it, every file empty.
C9_SecondRunNeverFails ==
    \A i \in RealRuns :
       (i + 1) \in RealRuns =>
          /\ NoError(runs[i + 1].logs)
          /\ runs[i + 1].after = runs[i].after
          /\ \A q \in FilePaths : runs[i + 1].after[q] = "empty_file"

\* C9 amended: when the first of two writing runs in a row logs no Error,
\* the second logs none either, leaves the filesystem as the first left it,
\* and every file of the tree is empty.
C9_SecondRunRepeatsErrorFreeFirst ==
    \A i \in RealRuns :
       ((i + 1) \in RealRuns /\ NoError(runs[i].logs)) =>
          /\ NoError(runs[i + 1].logs)
          /\ PathTags(runs[i + 1].logs) = PathTags(runs[i].logs)
          /\ runs[i + 1].after = runs[i].after
          /\ \A q \in FilePaths :
                q \in DOMAIN runs[i + 1].after /\ runs[i + 1].after[q] = "empty_file"

\* two writing runs without errors over an existing directory, a new
\* directory and a file that held data
C9_Witness ==
    /\ Len(runs) = 2
    /\ ~runs[1].dry_run /\ ~runs[2].dry_run
    /\ NoError(runs[1].logs)
    /\ \E k \in 1..Len(runs[2].logs) :
          runs[2].logs[k].tag = "folder" /\ runs[2].logs[k].path \in DOMAIN runs[1].before
    /\ \E k \in 1..Len(runs[2].logs) :
          runs[2].logs[k].tag = "folder" /\ runs[2].logs[k].path \notin DOMAIN runs[1].before
    /\ \E k \in 1..Len(runs[2].logs) :
          /\ runs[2].logs[k].tag = "file"
          /\ runs[2].logs[k].path \in DOMAIN runs[1].before
          /\ runs[1].before[runs[2].logs[k].path] = "nonempty_file"

RECURSIVE SlashJoin(_)
SlashJoin(path) ==
    IF path = <<>> THEN <<>>
    ELSE IF Len(path) = 1 THEN path[1]
    ELSE path[1] \o <<SLASH>> \o SlashJoin(Tail(path))

\* an issue's path without the '/' that line 124 puts before a top-level name
IssuePath(issue) == IF issue # <<>> /\ issue[1] = SLASH THEN Tail(issue) ELSE issue

\* C5: the issues are one per name holding a reserved character, wherever
\* the name is declared (in a mapping or in a sequence, at any depth), with
\* its slash-joined path, and nothing else.
C5_EveryReservedNameIsReported ==
    req.validated =>
        /\ { IssuePath(issues[i]) : i \in 1..Len(issues) } =
              { SlashJoin(n.path) :
                  n \in { m \in NodesOf(structure, <<>>) :
                             HasReserved(m.path[Len(m.path)]) } }
        /\ \A i, j \in 1..Len(issues) : issues[i] = issues[j] => i = j

FormatError == req.format \in {"JSON", "YAML"} /\ req.decoded = DecodeError

\* C7: create_structure is called, and the filesystem changes, only after a
\* tree was parsed, no issue was found and the base path is a directory; with
\* a format error, an issue or a bad base path nothing is ever written.
C7_WritesOnlyAfterAllChecks ==
    /\ req.called =>
          /\ ~FormatError
          /\ Truthy(structure)
          /\ req.validated /\ issues = <<>>
          /\ <<>> \in DOMAIN req.fs0 /\ req.fs0[<<>>] = "dir"
    /\ fs # req.fs0 => req.called
    /\ (\/ FormatError
        \/ issues # <<>>
        \/ <<>> \notin DOMAIN req.fs0
        \/ req.fs0[<<>>] # "dir")
          => (fs = req.fs0 /\ ~req.called /\ runs = <<>>)

\* a request that passed every check and wrote
C7_Witness ==
    /\ pc = "req_done"
    /\ req.called
    /\ ~req.dry_run
    /\ fs # req.fs0
    /\ req.format = "ASCII"

====
